---- MODULE Spec2Model ----
(***************************************************************************)
(* Ollama-Desktop: the chat request lifecycle (OllamaWorker driven by      *)
(* OllamaDesktopApp) and the model management thread (ModelManager driven  *)
(* by ModelDownloadDialog and OllamaDesktopApp).                           *)
(*                                                                         *)
(* Text is a sequence of one-character strings, so that concatenation,     *)
(* emptiness and str.strip() are computed rather than assumed.             *)
(* Worker threads advance one source statement group at a time; the GUI    *)
(* thread runs a handler to completion, except where it blocks in          *)
(* QThread.wait().  Signals emitted by a worker thread reach the GUI       *)
(* thread's slots through Qt's queued connections, in emission order.      *)
(***************************************************************************)
EXTENDS Integers, Sequences, FiniteSets, TLC

\* ---------------------------------------------------------------- bounds
MaxSends == 2
MaxChunks == 2
MaxCalls == 2
MaxUpdates == 2
MaxBytes == 2
MaxModels == 2
MaxSettings == 1

\* ---------------------------------------------------------------- inputs
Models == {"llama3"}
\* The entries of the model selector where the user changes the selection.
Selectable == Models \cup {"mistral"}
RawInputs == {<<" ">>, <<"p", " ">>}
\* The i-th chunk of a stream carries no content or the i-th letter.
Letters == <<"a", "b", "c", "d">>
Fragments(i) == {<<>>, <<Letters[i]>>}
Prompts == {<<>>, <<" ">>, <<" ", "s", " ">>}
PullNames == {"gemma2", "phi3"}
\* A pull progress update: the total and completed keys are each optional.
Updates ==
    [has_total : BOOLEAN, total : 0..MaxBytes, has_completed : BOOLEAN, completed : 0..MaxBytes]

VARIABLES
    message_history,  \* OllamaDesktopApp.message_history (the list object shared with workers)
    workers,          \* every OllamaWorker constructed so far, in construction order
    ollama_worker,    \* OllamaDesktopApp.ollama_worker: index into workers, 0 for None
    gui,              \* GUI thread: "idle" (in the event loop), "waiting" (in wait()), "closed"
    pending_model,    \* current_model local of a send_message blocked in wait()
    queue,            \* queued slot invocations posted to the GUI thread
    send_btn,         \* send_btn.isEnabled()
    model_combo,      \* model_combo.currentText()
    system_prompt,    \* OllamaDesktopApp.model_config.system_prompt
    emitted,          \* every OllamaWorker signal emission, in order
    delivered,        \* every message_complete slot invocation, with the worker current then
    send_limit,       \* how many send_message calls a behaviour explores
    chunk_limit,      \* how many chunks a response stream may yield
    mm_operation,     \* ModelManager.operation ("none" for None)
    mm_model_name,    \* ModelManager.model_name ("" for None)
    mm_is_cancelled,  \* ModelManager.is_cancelled
    mm_pc,            \* the ModelManager thread: "idle" when not running, else its place in run()
    mm_local,         \* locals of _load_models / _pull_model
    mm_run,           \* what happened to the current (or last) run of the thread
    mm_emitted,       \* the latest signal emission of the current (or last) run
    mm_queue,         \* queued invocations of the download dialog's slots
    dialog,           \* the modal ModelDownloadDialog: "open" or "closed"
    is_downloading,   \* ModelDownloadDialog.is_downloading
    downloaded,       \* the open dialog's model_downloaded slot has run
    mm_calls,         \* load_models / pull_model calls made so far
    size_bytes,       \* the argument of _format_size: mant * 1024^exp bytes
    formatted,        \* what _format_size returned, and which formatter
    models,           \* the argument of filter_valid_models
    valid_models,     \* what filter_valid_models returned
    filter_stage,     \* how many times the filter has been applied
    settings,         \* the persisted QSettings store
    api_config,       \* OllamaDesktopApp.api_config
    model_config,     \* OllamaDesktopApp.model_config, its system_prompt apart
    ui_config,        \* OllamaDesktopApp.ui_config
    default_model,    \* OllamaDesktopApp.default_model
    mm_api_config,    \* ModelManager.api_config
    settings_count    \* how often the settings dialog has been accepted

chatVars == <<message_history, workers, ollama_worker, gui, pending_model, queue,
              send_btn, model_combo, system_prompt, emitted, delivered>>

limitVars == <<send_limit, chunk_limit>>

\* The arguments and results of the pure functions.
utilVars == <<size_bytes, formatted, models, valid_models, filter_stage>>

\* The configuration, in memory and persisted (system_prompt is with the chat).
configVars == <<settings, api_config, model_config, ui_config, default_model,
                mm_api_config, settings_count>>

\* What no action of the chat or of the model manager touches.
restVars == <<limitVars, utilVars, configVars>>

pullVars == <<mm_operation, mm_model_name, mm_is_cancelled, mm_pc, mm_local, mm_run,
              mm_emitted, mm_queue, dialog, is_downloading, downloaded, mm_calls>>

\* What no chat action touches.
outsideChat == <<restVars, pullVars>>

vars == <<chatVars, restVars, pullVars>>

\* ------------------------------------------------------------- str.strip
IsSpace(c) == c = " "

RECURSIVE LStrip(_)
LStrip(s) == IF s # <<>> /\ IsSpace(Head(s)) THEN LStrip(Tail(s)) ELSE s

RECURSIVE RStrip(_)
RStrip(s) == IF s # <<>> /\ IsSpace(s[Len(s)]) THEN RStrip(SubSeq(s, 1, Len(s) - 1)) ELSE s

Strip(s) == RStrip(LStrip(s))

\* ---------------------------------------------------------- ChatMessage
ChatMessage(role, content, model) == [role |-> role, content |-> content, model |-> model]

\* ------------------------------------------------------- OllamaWorker
\* OllamaWorker.__init__: the worker keeps the model name and the ModelConfig
\* object it was given; self.messages is the caller's list itself (message_history).
\* Besides the object's fields and run()'s locals (pc, payload, idx, chunk) a worker
\* records what happened to it: seen (the messages its iteration yielded), built
\* (the iteration has ended), hist_end (the transcript when it ended), raced (the GUI thread changed the
\* transcript during the iteration), received (the chunks the stream yielded), nchat
\* (client.chat calls), exhausted / raised (how the stream ended) and prev_active
\* (the previous worker was still running when the send_message creating this one
\* was invoked), at_send (the transcript when that send_message returned, kept
\* until the iteration has ended) and intact (the iteration yielded exactly at_send).
\* No client has been created.
NoClient == [created |-> FALSE, host |-> "", port |-> 0, timeout_set |-> FALSE, timeout |-> 0]

\* ollama.Client(host=api_config.base_url): only the host argument is given, so
\* the client keeps the library's own timeout.
Client(api) ==
    [created |-> TRUE, host |-> api.host, port |-> api.port, timeout_set |-> FALSE,
     timeout |-> 0]

NewWorker(model, prompt, prev_active) ==
    [model |-> model, system_prompt |-> prompt, is_cancelled |-> FALSE,
     api_config |-> api_config, model_config |-> model_config, client |-> NoClient,
     full_response |-> <<>>, pc |-> "run", payload |-> <<>>, idx |-> 0,
     chunk |-> [content |-> <<>>, done |-> FALSE],
     seen |-> <<>>, built |-> FALSE, hist_end |-> <<>>, raced |-> FALSE, received |-> <<>>, nchat |-> 0,
     exhausted |-> FALSE, raised |-> FALSE, prev_active |-> prev_active,
     at_send |-> <<>>, intact |-> FALSE]

\* run() returns: its locals go out of scope, the object's fields stay.
Returned(r) ==
    [r EXCEPT !.pc = "finished", !.payload = <<>>, !.idx = 0,
              !.chunk = [content |-> <<>>, done |-> FALSE],
              !.seen = <<>>, !.built = FALSE, !.hist_end = <<>>, !.raced = FALSE,
              !.client = NoClient, !.at_send = <<>>, !.intact = FALSE]

\* The GUI thread changes message_history: a worker iterating over it is raced.
MarkRaced(ws) ==
    [w \in DOMAIN ws |-> IF ws[w].pc = "build" THEN [ws[w] EXCEPT !.raced = TRUE] ELSE ws[w]]

\* The system-role entry of the payload (workers.py 48-54).
SystemPartUnstripped(prompt) ==
    IF prompt # <<>> THEN <<[role |-> "system", content |-> prompt]>> ELSE <<>>

SystemPart(prompt) ==
    IF Strip(prompt) # <<>> THEN <<[role |-> "system", content |-> Strip(prompt)]>> ELSE <<>>

\* One payload entry for one ChatMessage (workers.py 57-60).
OllamaMessageWithModel(msg) == msg

OllamaMessage(msg) == [role |-> msg.role, content |-> msg.content]

\* self.full_response += content
AccumulateReplace(full, content) == content

Accumulate(full, content) == full \o content

\* Where run() goes after the except clause has emitted error_occurred: it returns.
AfterErrorRetry == "chat"

AfterError == "finished"

\* QThread.wait(): returns once the thread's run() has returned.
WaitDoneNoWait(w) == TRUE

WaitDone(w) == w = 0 \/ workers[w].pc = "finished"

Emission(w, sig, arg) == [w |-> w, sig |-> sig, arg |-> arg]

Finished(w) == Emission(w, "finished", <<>>)

\* run(), lines 32-54: the cancel check, then the system prompt.
run_begin(w) ==
    /\ workers[w].pc = "run"
    /\ IF workers[w].is_cancelled
       THEN /\ workers' = [workers EXCEPT ![w] = Returned(@)]
            /\ queue' = Append(queue, Finished(w))
       ELSE /\ workers' = [workers EXCEPT ![w].pc = "build",
                                          ![w].client = Client(workers[w].api_config),
                                          ![w].payload = SystemPart(workers[w].system_prompt)]
            /\ UNCHANGED queue
    /\ UNCHANGED <<message_history, ollama_worker, gui, pending_model, send_btn,
                   model_combo, system_prompt, emitted, delivered, outsideChat>>

\* run(), lines 56-60: one step of the iteration over self.messages.
build_step(w) ==
    /\ workers[w].pc = "build"
    /\ IF workers[w].idx < Len(message_history)
       THEN workers' = [workers EXCEPT
                ![w].payload = Append(@, OllamaMessage(message_history[workers[w].idx + 1])),
                ![w].seen = Append(@, message_history[workers[w].idx + 1]),
                ![w].idx = @ + 1]
       ELSE workers' = [workers EXCEPT ![w].pc = "chat", ![w].built = TRUE,
                                       ![w].hist_end = message_history,
                                       ![w].intact = (workers[w].seen = workers[w].at_send),
                                       ![w].at_send = <<>>]
    /\ UNCHANGED <<message_history, ollama_worker, gui, pending_model, queue, send_btn,
                   model_combo, system_prompt, emitted, delivered, outsideChat>>

\* run(), lines 72-77: client.chat(...), which opens the stream or raises.
chat_call(w) ==
    /\ workers[w].pc = "chat"
    /\ \E ok \in BOOLEAN :
         workers' = [workers EXCEPT ![w].nchat = @ + 1,
                                    ![w].pc = IF ok THEN "next" ELSE "except",
                                    ![w].raised = ~ok]
    /\ UNCHANGED <<message_history, ollama_worker, gui, pending_model, queue, send_btn,
                   model_combo, system_prompt, emitted, delivered, outsideChat>>

\* run(), line 79: the iterator yields a chunk, is exhausted, or raises.
next_chunk(w) ==
    /\ workers[w].pc = "next"
    /\ \/ /\ Len(workers[w].received) < chunk_limit
          /\ \E c \in Fragments(Len(workers[w].received) + 1), d \in BOOLEAN :
               workers' = [workers EXCEPT ![w].chunk = [content |-> c, done |-> d],
                                          ![w].received = Append(@, [content |-> c, done |-> d]),
                                          ![w].pc = "check"]
          /\ UNCHANGED queue
       \/ /\ workers' = [workers EXCEPT ![w] = Returned([@ EXCEPT !.exhausted = TRUE])]
          /\ queue' = Append(queue, Finished(w))
       \/ /\ workers' = [workers EXCEPT ![w].raised = TRUE, ![w].pc = "except"]
          /\ UNCHANGED queue
    /\ UNCHANGED <<message_history, ollama_worker, gui, pending_model, send_btn,
                   model_combo, system_prompt, emitted, delivered, outsideChat>>

\* run(), lines 80-81.
check_cancel(w) ==
    /\ workers[w].pc = "check"
    /\ IF workers[w].is_cancelled
       THEN /\ workers' = [workers EXCEPT ![w] = Returned(@)]
            /\ queue' = Append(queue, Finished(w))
       ELSE /\ workers' = [workers EXCEPT ![w].pc = "content"]
            /\ UNCHANGED queue
    /\ UNCHANGED <<message_history, ollama_worker, gui, pending_model, send_btn,
                   model_combo, system_prompt, emitted, delivered, outsideChat>>

\* run(), lines 83-86.  message_chunk is connected to no slot.
handle_content(w) ==
    /\ workers[w].pc = "content"
    /\ IF workers[w].chunk.content # <<>>
       THEN /\ workers' = [workers EXCEPT
                   ![w].full_response = Accumulate(@, workers[w].chunk.content),
                   ![w].pc = "done"]
            /\ emitted' = Append(emitted, Emission(w, "message_chunk", workers[w].chunk.content))
       ELSE /\ workers' = [workers EXCEPT ![w].pc = "done"]
            /\ UNCHANGED emitted
    /\ UNCHANGED <<message_history, ollama_worker, gui, pending_model, queue, send_btn,
                   model_combo, system_prompt, delivered, outsideChat>>

\* run(), lines 88-90.
handle_done(w) ==
    /\ workers[w].pc = "done"
    /\ IF workers[w].chunk.done
       THEN /\ workers' = [workers EXCEPT ![w] = Returned(@)]
            /\ emitted' = Append(emitted,
                                 Emission(w, "message_complete", workers[w].full_response))
            /\ queue' = queue \o <<Emission(w, "message_complete", workers[w].full_response),
                                   Finished(w)>>
       ELSE /\ workers' = [workers EXCEPT ![w].pc = "next"]
            /\ UNCHANGED <<emitted, queue>>
    /\ UNCHANGED <<message_history, ollama_worker, gui, pending_model, send_btn,
                   model_combo, system_prompt, delivered, outsideChat>>

\* run(), lines 92-93.
except_check(w) ==
    /\ workers[w].pc = "except"
    /\ IF workers[w].is_cancelled
       THEN /\ workers' = [workers EXCEPT ![w] = Returned(@)]
            /\ queue' = Append(queue, Finished(w))
       ELSE /\ workers' = [workers EXCEPT ![w].pc = "emit_error"]
            /\ UNCHANGED queue
    /\ UNCHANGED <<message_history, ollama_worker, gui, pending_model, send_btn,
                   model_combo, system_prompt, emitted, delivered, outsideChat>>

\* run(), line 94.
emit_error(w) ==
    /\ workers[w].pc = "emit_error"
    /\ workers' = [workers EXCEPT ![w] = IF AfterError = "finished" THEN Returned(@)
                                          ELSE [@ EXCEPT !.pc = AfterError]]
    /\ emitted' = Append(emitted, Emission(w, "error_occurred", <<>>))
    /\ queue' = IF AfterError = "finished"
                THEN queue \o <<Emission(w, "error_occurred", <<>>), Finished(w)>>
                ELSE Append(queue, Emission(w, "error_occurred", <<>>))
    /\ UNCHANGED <<message_history, ollama_worker, gui, pending_model, send_btn,
                   model_combo, system_prompt, delivered, outsideChat>>

\* OllamaWorker.cancel
cancel(w) == [workers EXCEPT ![w].is_cancelled = TRUE]

\* ---------------------------------------------------- OllamaDesktopApp
\* send_message, lines 422-438: construct, connect and start the new worker.
StartWorker(current_model, prev_active, transcript) ==
    /\ workers' = Append(workers, [NewWorker(current_model, system_prompt, prev_active)
                                       EXCEPT !.at_send = transcript])
    /\ ollama_worker' = Len(workers) + 1
    /\ send_btn' = FALSE
    /\ gui' = "idle"
    /\ pending_model' = ""

\* send_message, lines 392-420 and, when wait() returns at once, the rest.
send_message(raw) ==
    /\ gui = "idle"
    /\ Len(workers) < send_limit
    /\ Strip(raw) # <<>>
    /\ model_combo # ""
    /\ message_history' = Append(message_history, ChatMessage("user", Strip(raw), model_combo))
    /\ IF WaitDone(ollama_worker)
       THEN StartWorker(model_combo, FALSE, message_history')
       ELSE /\ gui' = "waiting"
            /\ pending_model' = model_combo
            /\ workers' = MarkRaced(workers)
            /\ UNCHANGED <<ollama_worker, send_btn>>
    /\ UNCHANGED <<queue, model_combo, system_prompt, emitted, delivered, outsideChat>>

\* send_message resuming after ollama_worker.wait() has returned.
send_message_resume ==
    /\ gui = "waiting"
    /\ WaitDone(ollama_worker)
    /\ StartWorker(pending_model, TRUE, message_history)
    /\ UNCHANGED <<message_history, queue, model_combo, system_prompt, emitted, delivered,
                   outsideChat>>

\* The user picks another entry of the model selector.
select_model(m) ==
    /\ gui = "idle"
    /\ model_combo # ""
    /\ m # model_combo
    /\ model_combo' = m
    /\ UNCHANGED <<message_history, workers, ollama_worker, gui, pending_model, queue,
                   send_btn, system_prompt, emitted, delivered, outsideChat>>

on_response_received ==
    /\ gui = "idle"
    /\ queue # <<>>
    /\ Head(queue).sig = "message_complete"
    /\ message_history' = Append(message_history,
                                 ChatMessage("assistant", Head(queue).arg, model_combo))
    /\ delivered' = Append(delivered, [w |-> Head(queue).w, current |-> ollama_worker])
    /\ queue' = Tail(queue)
    /\ workers' = MarkRaced(workers)
    /\ UNCHANGED <<ollama_worker, gui, pending_model, send_btn, model_combo,
                   system_prompt, emitted, outsideChat>>

on_error ==
    /\ gui = "idle"
    /\ queue # <<>>
    /\ Head(queue).sig = "error_occurred"
    /\ send_btn' = TRUE
    /\ queue' = Tail(queue)
    /\ UNCHANGED <<message_history, workers, ollama_worker, gui, pending_model, model_combo,
                   system_prompt, emitted, delivered, outsideChat>>

SendStaysDisabled == FALSE

\* self.send_btn.setEnabled(True)
SendEnabled == TRUE

on_worker_finished ==
    /\ gui = "idle"
    /\ queue # <<>>
    /\ Head(queue).sig = "finished"
    /\ send_btn' = SendEnabled
    /\ queue' = Tail(queue)
    /\ UNCHANGED <<message_history, workers, ollama_worker, gui, pending_model, model_combo,
                   system_prompt, emitted, delivered, outsideChat>>

ClearedButLast(history) == IF history = <<>> THEN <<>> ELSE <<history[Len(history)]>>

\* self.message_history.clear()
Cleared(history) == <<>>

\* clear_chat, also reached from new_chat and from the settings dialog.
clear_chat ==
    /\ gui = "idle"
    /\ message_history' = Cleared(message_history)
    /\ workers' = MarkRaced(workers)
    /\ UNCHANGED <<ollama_worker, gui, pending_model, queue, send_btn, model_combo,
                   system_prompt, emitted, delivered, outsideChat>>

\* ------------------------------------------------------- configuration
\* Temperature and top_p are counted in hundredths, as the sliders count them.
SettingKeys ==
    {"api_host", "api_port", "api_timeout", "model_temperature", "model_top_p",
     "model_num_predict", "model_num_ctx", "model_system_prompt", "ui_font_size",
     "ui_dark_mode", "app_default_model"}

\* The fallbacks of __init__, lines 68-83.
Fallback ==
    [keys |-> {}, api_host |-> "localhost", api_port |-> 11434, api_timeout |-> 30,
     model_temperature |-> 70, model_top_p |-> 90, model_num_predict |-> 512,
     model_num_ctx |-> 2048, model_system_prompt |-> <<>>, ui_font_size |-> 12,
     ui_dark_mode |-> TRUE, app_default_model |-> ""]

\* settings.value(key, default) behind get_int_setting and the like: the stored
\* value of a key that is present, the fallback otherwise.
Setting(store, key) == IF key \in store.keys THEN store[key] ELSE Fallback[key]

LoadedApi(store) ==
    [host |-> Setting(store, "api_host"), port |-> Setting(store, "api_port"),
     timeout |-> Setting(store, "api_timeout")]

LoadedModel(store) ==
    [temperature |-> Setting(store, "model_temperature"),
     top_p |-> Setting(store, "model_top_p"),
     num_predict |-> Setting(store, "model_num_predict"),
     num_ctx |-> Setting(store, "model_num_ctx")]

LoadedUi(store) ==
    [font_size |-> Setting(store, "ui_font_size"), dark_mode |-> Setting(store, "ui_dark_mode")]

\* The store after save_settings has written every key.
Stored(api, model, prompt, ui, default) ==
    [keys |-> SettingKeys, api_host |-> api.host, api_port |-> api.port,
     api_timeout |-> api.timeout, model_temperature |-> model.temperature,
     model_top_p |-> model.top_p, model_num_predict |-> model.num_predict,
     model_num_ctx |-> model.num_ctx, model_system_prompt |-> prompt,
     ui_font_size |-> ui.font_size, ui_dark_mode |-> ui.dark_mode,
     app_default_model |-> default]

SetValueNowhere(store, key, value) == store

\* settings.setValue(key, value) followed by sync(): the one key is written.
SetValue(store, key, value) == [store EXCEPT !.keys = @ \cup {key}, ![key] = value]

save_settings ==
    settings' = Stored(api_config, model_config, system_prompt, ui_config, default_model)

\* -------------------------------------------------------- _format_size
\* Byte counts are written mant * 1024^exp, which keeps the arithmetic of the
\* larger units within range; each is an integer a double holds exactly, as is
\* every quotient by a power of 1024.
Mantissas == {0, 1, 256, 1000, 1023, 1024, 1025, 1536, 10240, 1048575}
Exponents == 0..5
SizeInputs == {s \in [mant : Mantissas, exp : Exponents] : s.mant = 0 => s.exp = 0}

Units == <<"B", "KB", "MB", "GB", "TB">>

NotFormatted == [by |-> "none", unknown |-> FALSE, decimals |-> 0, number |-> 0, unit |-> ""]

\* The text "Unknown".
Unknown(by) == [by |-> by, unknown |-> TRUE, decimals |-> 0, number |-> 0, unit |-> ""]

\* The text f"{number} {unit}" (decimals = 0), or f"{number / 10:.1f} {unit}"
\* with number counting tenths (decimals = 1).
Rendered(by, decimals, number, unit) ==
    [by |-> by, unknown |-> FALSE, decimals |-> decimals, number |-> number, unit |-> unit]

RECURSIVE Pow1024(_)
Pow1024(k) == IF k = 0 THEN 1 ELSE 1024 * Pow1024(k - 1)

\* size < 1024.0 for size = mant * 1024^e.
Less1024(mant, e) ==
    IF e >= 1 THEN mant = 0
    ELSE IF e >= -1 THEN mant < 1024 * Pow1024(-e)
    ELSE TRUE

\* The quotient num / den rounded to the nearest integer, ties to even: the
\* rounding of the .1f format, which is exact on the exact quotients here.
RoundHalfEven(num, den) ==
    LET q == num \div den
        r == num % den
    IN  IF 2 * r < den THEN q
        ELSE IF 2 * r > den THEN q + 1
        ELSE IF q % 2 = 0 THEN q ELSE q + 1

\* f"{size:.1f}" in tenths, for size = mant * 1024^e.
Tenths(mant, e) ==
    IF e >= 0 THEN mant * 10 * Pow1024(e) ELSE RoundHalfEven(mant * 10, Pow1024(-e))

\* ModelManager._format_size, the loop over the units from unit i on.
RECURSIVE ManagerLoop(_, _, _)
ManagerLoop(mant, e, i) ==
    IF i > Len(Units) THEN Rendered("ModelManager", 1, Tenths(mant, e), "PB")
    ELSE IF Less1024(mant, e) THEN Rendered("ModelManager", 1, Tenths(mant, e), Units[i])
    ELSE ManagerLoop(mant, e - 1, i + 1)

ManagerFormatSize(s) ==
    IF s.mant = 0 THEN Unknown("ModelManager") ELSE ManagerLoop(s.mant, s.exp, 1)

\* ModelDownloadDialog._format_size, the loop over the units from unit i on.
RECURSIVE DialogLoop(_, _, _)
DialogLoop(mant, e, i) ==
    IF i > Len(Units) THEN Rendered("ModelDownloadDialog", 1, Tenths(mant, e), "PB")
    ELSE IF Less1024(mant, e)
         THEN IF Units[i] = "B"
              THEN Rendered("ModelDownloadDialog", 0, mant * Pow1024(e), "B")
              ELSE Rendered("ModelDownloadDialog", 1, Tenths(mant, e), Units[i])
    ELSE DialogLoop(mant, e - 1, i + 1)

DialogFormatSize(s) ==
    IF s.mant = 0 THEN Rendered("ModelDownloadDialog", 0, 0, "B")
    ELSE DialogLoop(s.mant, s.exp, 1)

\* _load_models, line 178: the size of a listed model is formatted.
manager_format_size ==
    /\ formatted.by = "none"
    /\ formatted' = ManagerFormatSize(size_bytes)
    /\ UNCHANGED <<chatVars, limitVars, pullVars, configVars, size_bytes, models,
                   valid_models, filter_stage>>

\* The dialog's model inventory, dialogs.py lines 671 and 705.
dialog_format_size ==
    /\ formatted.by = "none"
    /\ formatted' = DialogFormatSize(size_bytes)
    /\ UNCHANGED <<chatVars, limitVars, pullVars, configVars, size_bytes, models,
                   valid_models, filter_stage>>

\* -------------------------------------------------- filter_valid_models
\* Model identifiers are sequences of characters.  The characters, in code point order.
Alphabet ==
    <<"-", ".", "0", "1", "2", "3", "4", "5", "6", "7", "8", "9", ":",
      "A", "B", "C", "D", "E", "F", "G", "H", "I", "J", "K", "L", "M",
      "N", "O", "P", "Q", "R", "S", "T", "U", "V", "W", "X", "Y", "Z",
      "_", "a", "b", "c", "d", "e", "f", "g", "h", "i", "j", "k", "l",
      "m", "n", "o", "p", "q", "r", "s", "t", "u", "v", "w", "x", "y",
      "z">>

Ord(c) == CHOOSE i \in 1..Len(Alphabet) : Alphabet[i] = c

\* str.lower() on one character, and on a string.
LowerChar(c) == IF Ord(c) >= Ord("A") /\ Ord(c) <= Ord("Z") THEN Alphabet[Ord(c) + 27] ELSE c

Lower(s) == [i \in 1..Len(s) |-> LowerChar(s[i])]

\* sub in s.
Contains(sub, s) ==
    \E i \in 0..(Len(s) - Len(sub)) : SubSeq(s, i + 1, i + Len(sub)) = sub

\* any(x in s for x in list).
AnyIn(list, s) == \E k \in 1..Len(list) : Contains(list[k], s)

SkipPatterns ==
    <<<<"e", "m", "b", "e", "d", "d", "i", "n", "g">>,
       <<"v", "i", "s", "i", "o", "n">>,
       <<"m", "u", "l", "t", "i", "m", "o", "d", "a", "l">>,
       <<"e", "x", "p", "e", "r", "i", "m", "e", "n", "t", "a", "l">>,
       <<"u", "n", "s", "t", "a", "b", "l", "e">>,
       <<"b", "e", "t", "a">>,
       <<"a", "l", "p", "h", "a">>,
       <<"d", "e", "v">>,
       <<"d", "r", "a", "f", "t">>,
       <<"c", "o", "r", "r", "u", "p", "t">>,
       <<"b", "r", "o", "k", "e", "n">>,
       <<"i", "n", "c", "o", "m", "p", "l", "e", "t", "e">>,
       <<"f", "a", "i", "l", "e", "d">>>>

InvalidTags ==
    <<<<"f", "p", "1", "6">>,
       <<"g", "g", "u", "f">>,
       <<"b", "i", "n">>,
       <<"s", "a", "f", "e", "t", "e", "n", "s", "o", "r", "s">>,
       <<"p", "y", "t", "o", "r", "c", "h">>,
       <<"t", "f">>,
       <<"o", "n", "n", "x">>,
       <<"o", "p", "e", "n", "v", "i", "n", "o">>,
       <<"m", "l", "x">>,
       <<"f", "1", "6">>,
       <<"q", "2", "_", "k">>,
       <<"q", "3", "_", "k">>,
       <<"q", "4", "_", "k">>,
       <<"q", "5", "_", "k">>,
       <<"q", "6", "_", "k">>,
       <<"q", "8", "_", "0">>,
       <<"i", "q">>,
       <<"c", "o", "d", "e">>,
       <<"i", "n", "s", "t", "r", "u", "c", "t", "-", "f", "p", "1", "6">>,
       <<"c", "h", "a", "t", "-", "f", "p", "1", "6">>>>

DeprecatedModels ==
    <<<<"c", "o", "d", "e", "l", "l", "a", "m", "a", ":", "7", "b", "-", "p", "y", "t", "h", "o", "n">>,
       <<"c", "o", "d", "e", "l", "l", "a", "m", "a", ":", "1", "3", "b", "-", "p", "y", "t", "h", "o", "n">>,
       <<"c", "o", "d", "e", "l", "l", "a", "m", "a", ":", "3", "4", "b", "-", "p", "y", "t", "h", "o", "n">>,
       <<"v", "i", "c", "u", "n", "a">>,
       <<"a", "l", "p", "a", "c", "a">>,
       <<"c", "h", "a", "t", "g", "l", "m">>,
       <<"b", "a", "i", "c", "h", "u", "a", "n">>,
       <<"i", "n", "t", "e", "r", "n", "l", "m">>>>

LargeSizes ==
    <<<<"7", "0", "b">>,
       <<"7", "2", "b">>,
       <<"1", "8", "0", "b">>,
       <<"4", "0", "5", "b">>>>

ValidPatterns ==
    <<<<"l", "l", "a", "m", "a">>,
       <<"m", "i", "s", "t", "r", "a", "l">>,
       <<"g", "e", "m", "m", "a">>,
       <<"q", "w", "e", "n">>,
       <<"p", "h", "i">>,
       <<"t", "i", "n", "y", "l", "l", "a", "m", "a">>,
       <<"o", "r", "c", "a">>,
       <<"d", "o", "l", "p", "h", "i", "n">>,
       <<"w", "i", "z", "a", "r", "d">>,
       <<"n", "e", "u", "r", "a", "l">>,
       <<"n", "o", "u", "s">>,
       <<"z", "e", "p", "h", "y", "r">>>>

TagOfWhole(model) == model

\* model.split(':', 1)[1]: what follows the first colon.
TagOf(model) ==
    LET i == CHOOSE j \in 1..Len(model) :
                 model[j] = ":" /\ \A k \in 1..(j - 1) : model[k] # ":"
    IN  SubSeq(model, i + 1, Len(model))

\* One iteration of the loop: TRUE when the model is appended to valid_models.
IsAppended(model) ==
    LET model_lower == Lower(model)
    IN  IF AnyIn(SkipPatterns, model_lower) THEN FALSE
        ELSE IF Contains(<<"t", "e", "s", "t">>, model_lower)
                /\ ~Contains(<<"l", "a", "t", "e", "s", "t">>, model_lower) THEN FALSE
        ELSE IF Contains(<<":">>, model) /\ AnyIn(InvalidTags, Lower(TagOf(model))) THEN FALSE
        ELSE IF AnyIn(DeprecatedModels, model_lower) THEN FALSE
        ELSE IF AnyIn(LargeSizes, model_lower) THEN FALSE
        ELSE AnyIn(ValidPatterns, model_lower)

\* a < b for two strings: Python compares them code point by code point.
RECURSIVE StrLess(_, _)
StrLess(a, b) ==
    IF b = <<>> THEN FALSE
    ELSE IF a = <<>> THEN TRUE
    ELSE IF Ord(Head(a)) # Ord(Head(b)) THEN Ord(Head(a)) < Ord(Head(b))
    ELSE StrLess(Tail(a), Tail(b))

\* x placed into an ascending list after the elements not greater than it.
RECURSIVE Insert(_, _)
Insert(x, s) ==
    IF s = <<>> THEN <<x>>
    ELSE IF StrLess(x, Head(s)) THEN <<x>> \o s
    ELSE <<Head(s)>> \o Insert(x, Tail(s))

RECURSIVE Reversed(_)
Reversed(s) == IF s = <<>> THEN <<>> ELSE Append(Reversed(Tail(s)), Head(s))

\* sorted(s).
RECURSIVE Sorted(_)
Sorted(s) == IF s = <<>> THEN <<>> ELSE Insert(s[Len(s)], Sorted(SubSeq(s, 1, Len(s) - 1)))

\* The loop of filter_valid_models from element i on.
RECURSIVE FilterLoop(_, _, _)
FilterLoop(ms, i, acc) ==
    IF i > Len(ms) THEN acc
    ELSE FilterLoop(ms, i + 1, IF IsAppended(ms[i]) THEN Append(acc, ms[i]) ELSE acc)

filter_valid_models(ms) == Sorted(FilterLoop(ms, 1, <<>>))

Example ==
    <<<<"l", "l", "a", "m", "a", "3", ".", "2", ":", "l", "a", "t", "e", "s", "t">>,
      <<"l", "l", "a", "m", "a", "3", ".", "2", ":", "t", "e", "s", "t">>,
      <<"v", "i", "s", "i", "o", "n", "-", "m", "o", "d", "e", "l", ":", "l", "a", "t", "e", "s", "t">>,
      <<"7", "0", "b", "-", "l", "l", "a", "m", "a", ":", "l", "a", "t", "e", "s", "t">>,
      <<"c", "o", "d", "e", "l", "l", "a", "m", "a", ":", "l", "a", "t", "e", "s", "t">>>>

ModelPool ==
    {<<"l", "l", "a", "m", "a", "3", ".", "2", ":", "l", "a", "t", "e", "s", "t">>,
     <<"l", "l", "a", "m", "a", "3", ".", "2", ":", "t", "e", "s", "t">>,
     <<"v", "i", "s", "i", "o", "n", "-", "m", "o", "d", "e", "l", ":", "l", "a", "t", "e", "s", "t">>,
     <<"7", "0", "b", "-", "l", "l", "a", "m", "a", ":", "l", "a", "t", "e", "s", "t">>,
     <<"c", "o", "d", "e", "l", "l", "a", "m", "a", ":", "l", "a", "t", "e", "s", "t">>,
     <<"M", "i", "s", "t", "r", "a", "l">>,
     <<"p", "h", "i", "3", ":", "f", "p", "1", "6">>,
     <<"v", "i", "c", "u", "n", "a", ":", "7", "b">>,
     <<"g", "p", "t", "2", ":", "l", "a", "t", "e", "s", "t">>,
     <<"l", "l", "a", "m", "a", "3", ":", "c", "o", "d", "e">>}

RECURSIVE ListsUpTo(_)
ListsUpTo(n) ==
    IF n = 0 THEN {<<>>}
    ELSE LET shorter == ListsUpTo(n - 1)
         IN  shorter \cup {Append(s, x) : s \in shorter, x \in ModelPool}

ModelLists == ListsUpTo(MaxModels) \cup {Example}

\* on_installed_models_loaded, line 306: the filter applied to the listed names.
apply_filter ==
    /\ filter_stage = 0
    /\ valid_models' = filter_valid_models(models)
    /\ filter_stage' = 1
    /\ UNCHANGED <<chatVars, limitVars, pullVars, configVars, size_bytes, formatted, models>>

\* The filter applied to its own result.
apply_filter_again ==
    /\ filter_stage = 1
    /\ models' = valid_models
    /\ valid_models' = filter_valid_models(valid_models)
    /\ filter_stage' = 2
    /\ UNCHANGED <<chatVars, limitVars, pullVars, configVars, size_bytes, formatted>>

\* x in s, for a list s.
InList(x, s) == \E i \in 1..Len(s) : s[i] = x

ModelToSelectCurrentFirst(default, current_text, filtered_models) ==
    IF InList(current_text, filtered_models) THEN current_text
    ELSE IF default # <<>> /\ InList(default, filtered_models) THEN default
    ELSE <<>>

\* on_installed_models_loaded, lines 315-320: model_to_select, <<>> for None.
ModelToSelect(default, current_text, filtered_models) ==
    IF default # <<>> /\ InList(default, filtered_models) THEN default
    ELSE IF InList(current_text, filtered_models) THEN current_text
    ELSE <<>>

\* on_installed_models_loaded: the selector is cleared and, if the filtered list
\* is not empty, filled with it (the first item added to an empty QComboBox
\* becomes the current one) and set to model_to_select if there is one.  Model
\* names are texts here, and valid_models holds the selector's items.
on_installed_models_loaded ==
    /\ filter_stage = 0
    /\ LET filtered_models == filter_valid_models(models)
           current_text == model_combo
           model_to_select == ModelToSelect(default_model, current_text, filtered_models)
       IN  /\ valid_models' = filtered_models
           /\ model_combo' = IF filtered_models = <<>> THEN <<>>
                             ELSE IF model_to_select # <<>> THEN model_to_select
                             ELSE filtered_models[1]
    /\ filter_stage' = 1
    /\ UNCHANGED <<message_history, workers, ollama_worker, gui, pending_model, queue,
                   send_btn, system_prompt, emitted, delivered, limitVars, pullVars,
                   configVars, size_bytes, formatted, models>>

\* ------------------------------------------------------- ModelManager
\* What a run of the thread records about itself: id (runs so far), pull_name
\* (the model name handed to client.pull), cancel_called (cancel_operation was
\* called during the run), cancel_in_stream (it was called while the pull stream
\* was being consumed), total_known / completed_known (an update carried the key),
\* ended (the pull stream was exhausted), raised (an exception was raised),
\* pulled / errors (how many model_pulled / error_occurred signals it emitted),
\* overlap (it was started while the previous run was still executing),
\* cancelled_at_raise (is_cancelled was set when the exception was raised).
NoRun ==
    [id |-> 0, pull_name |-> "", cancel_called |-> FALSE, cancel_in_stream |-> FALSE,
     total_known |-> FALSE, completed_known |-> FALSE, ended |-> FALSE, raised |-> FALSE,
     pulled |-> 0, errors |-> 0, overlap |-> FALSE, cancelled_at_raise |-> FALSE]

\* No emission yet in this run.
NoEmission ==
    [run |-> 0, sig |-> "none", value |-> 0, kind |-> "", name |-> "",
     total_known |-> FALSE, completed_known |-> FALSE, total |-> 0, completed |-> 0]

NoLocal ==
    [total_size |-> 0, completed_size |-> 0,
     progress |-> [has_total |-> FALSE, total |-> 0, has_completed |-> FALSE, completed |-> 0],
     updates |-> 0, client |-> NoClient]

\* The states of the thread in which _pull_model is consuming the pull stream.
InPullStream == mm_pc \in {"pull_next", "pull_check", "pull_update"}

NoteCancel(run) ==
    [run EXCEPT !.cancel_called = @ \/ mm_pc # "idle", !.cancel_in_stream = @ \/ InPullStream]

MMEmission(sig, value, kind, name) ==
    [run |-> mm_run.id, sig |-> sig, value |-> value, kind |-> kind, name |-> name,
     total_known |-> mm_run.total_known, completed_known |-> mm_run.completed_known,
     total |-> mm_local.total_size, completed |-> mm_local.completed_size]

\* percentage = int((completed_size / total_size) * 100).  For the byte counts drawn
\* here the double-precision quotient, scaled and truncated, is the exact floor.
Percentage(completed_size, total_size) == (completed_size * 100) \div total_size

\* QThread.start(): starts run() in the thread unless the thread is already running.
ThreadStartsAlways == TRUE

\* QThread.start() acts only on a thread that is not running.
ThreadStarts == mm_pc = "idle"

start ==
    IF ThreadStarts
    THEN /\ mm_pc' = "run"
         /\ mm_run' = [NoRun EXCEPT !.id = mm_run.id + 1, !.overlap = mm_pc # "idle"]
         /\ mm_local' = NoLocal
         /\ mm_emitted' = NoEmission
    ELSE UNCHANGED <<mm_pc, mm_run, mm_local, mm_emitted>>

load_models ==
    /\ mm_operation' = "load"
    /\ mm_is_cancelled' = FALSE
    /\ start
    /\ mm_calls' = mm_calls + 1
    /\ UNCHANGED mm_model_name

pull_model(model_name) ==
    /\ mm_operation' = "pull"
    /\ mm_model_name' = model_name
    /\ mm_is_cancelled' = FALSE
    /\ start
    /\ mm_calls' = mm_calls + 1

cancel_operation ==
    /\ mm_is_cancelled' = TRUE
    /\ mm_run' = NoteCancel(mm_run)

\* run(), lines 139-143: dispatch on self.operation.
mm_dispatch ==
    /\ mm_pc = "run"
    /\ mm_pc' = CASE mm_operation = "load" -> "list"
                  [] mm_operation = "pull" -> "pull_begin"
                  [] OTHER -> "idle"
    /\ UNCHANGED <<chatVars, restVars, mm_operation, mm_model_name, mm_is_cancelled, mm_local,
                   mm_run, mm_emitted, mm_queue, dialog, is_downloading, downloaded, mm_calls>>

\* _load_models, lines 150-156: client.list() returns the inventory or raises.
load_list ==
    /\ mm_pc = "list"
    /\ \/ /\ mm_pc' = "load_iter"
          /\ \E n \in 0..1 :
               mm_local' = [mm_local EXCEPT !.updates = n, !.client = Client(mm_api_config)]
          /\ UNCHANGED mm_run
       \/ /\ mm_pc' = "load_except"
          /\ mm_run' = [mm_run EXCEPT !.raised = TRUE, !.cancelled_at_raise = mm_is_cancelled]
          /\ mm_local' = [mm_local EXCEPT !.client = Client(mm_api_config)]
    /\ UNCHANGED <<chatVars, restVars, mm_operation, mm_model_name, mm_is_cancelled,
                   mm_emitted, mm_queue, dialog, is_downloading, downloaded, mm_calls>>

\* _load_models, lines 158-183: one iteration over the inventory (updates counts
\* the entries left), returning silently when cancelled.
load_iter ==
    /\ mm_pc = "load_iter"
    /\ IF mm_local.updates = 0
       THEN mm_pc' = "load_check" /\ UNCHANGED mm_local
       ELSE IF mm_is_cancelled
            THEN mm_pc' = "idle" /\ UNCHANGED mm_local
            ELSE mm_local' = [mm_local EXCEPT !.updates = @ - 1] /\ UNCHANGED mm_pc
    /\ UNCHANGED <<chatVars, restVars, mm_operation, mm_model_name, mm_is_cancelled, mm_run,
                   mm_emitted, mm_queue, dialog, is_downloading, downloaded, mm_calls>>

\* _load_models, line 185.
load_check ==
    /\ mm_pc = "load_check"
    /\ mm_pc' = IF mm_is_cancelled THEN "idle" ELSE "load_emit"
    /\ UNCHANGED <<chatVars, restVars, mm_operation, mm_model_name, mm_is_cancelled, mm_local,
                   mm_run, mm_emitted, mm_queue, dialog, is_downloading, downloaded, mm_calls>>

\* _load_models, line 186.
load_emit ==
    /\ mm_pc = "load_emit"
    /\ mm_emitted' = MMEmission("models_loaded", 0, "", "")
    /\ mm_pc' = "idle"
    /\ UNCHANGED <<chatVars, restVars, mm_operation, mm_model_name, mm_is_cancelled, mm_local,
                   mm_run, mm_queue, dialog, is_downloading, downloaded, mm_calls>>

\* _load_models lines 188-189 and _pull_model lines 228-229.
mm_except_check ==
    /\ mm_pc \in {"load_except", "pull_except"}
    /\ mm_pc' = IF mm_is_cancelled THEN "idle" ELSE "emit_error"
    /\ UNCHANGED <<chatVars, restVars, mm_operation, mm_model_name, mm_is_cancelled, mm_local,
                   mm_run, mm_emitted, mm_queue, dialog, is_downloading, downloaded, mm_calls>>

\* The dialog's slots are connected while the dialog exists.
Post(q, e) == IF dialog = "open" THEN Append(q, e) ELSE q

\* _load_models line 190 and _pull_model line 230.
mm_emit_error ==
    /\ mm_pc = "emit_error"
    /\ mm_emitted' = MMEmission("error_occurred", 0, "", "")
    /\ mm_run' = [mm_run EXCEPT !.errors = @ + 1]
    /\ mm_queue' = Post(mm_queue, "error_occurred")
    /\ mm_pc' = "idle"
    /\ UNCHANGED <<chatVars, restVars, mm_operation, mm_model_name, mm_is_cancelled, mm_local,
                   dialog, is_downloading, downloaded, mm_calls>>

\* _pull_model, lines 194-207, up to the client.pull(self.model_name) call.
pull_begin ==
    /\ mm_pc = "pull_begin"
    /\ IF mm_model_name = ""
       THEN /\ mm_emitted' = MMEmission("error_occurred", 0, "", "")
            /\ mm_run' = [mm_run EXCEPT !.errors = @ + 1]
            /\ mm_queue' = Post(mm_queue, "error_occurred")
            /\ mm_pc' = "idle"
            /\ UNCHANGED mm_local
       ELSE /\ mm_emitted' = MMEmission("pull_progress", -1, "starting", mm_model_name)
            /\ mm_run' = [mm_run EXCEPT !.pull_name = mm_model_name]
            /\ mm_local' = [mm_local EXCEPT !.client = Client(mm_api_config)]
            /\ mm_pc' = "pull_next"
            /\ UNCHANGED mm_queue
    /\ UNCHANGED <<chatVars, restVars, mm_operation, mm_model_name, mm_is_cancelled,
                   dialog, is_downloading, downloaded, mm_calls>>

\* _pull_model, line 207: the stream yields an update, is exhausted, or raises.
pull_next ==
    /\ mm_pc = "pull_next"
    /\ \/ /\ mm_local.updates < MaxUpdates
          /\ \E u \in Updates :
               /\ ~u.has_total => u.total = 0
               /\ ~u.has_completed => u.completed = 0
               /\ mm_local' = [mm_local EXCEPT !.progress = u, !.updates = @ + 1]
          /\ mm_pc' = "pull_check"
          /\ UNCHANGED mm_run
       \/ /\ mm_pc' = "pull_end"
          /\ mm_run' = [mm_run EXCEPT !.ended = TRUE]
          /\ UNCHANGED mm_local
       \/ /\ mm_pc' = "pull_except"
          /\ mm_run' = [mm_run EXCEPT !.raised = TRUE, !.cancelled_at_raise = mm_is_cancelled]
          /\ UNCHANGED mm_local
    /\ UNCHANGED <<chatVars, restVars, mm_operation, mm_model_name, mm_is_cancelled,
                   mm_emitted, mm_queue, dialog, is_downloading, downloaded, mm_calls>>

\* _pull_model, lines 208-210.
pull_check ==
    /\ mm_pc = "pull_check"
    /\ IF mm_is_cancelled
       THEN /\ mm_emitted' = MMEmission("pull_progress", 0, "cancelled", "")
            /\ mm_pc' = "idle"
       ELSE /\ mm_pc' = "pull_update"
            /\ UNCHANGED mm_emitted
    /\ UNCHANGED <<chatVars, restVars, mm_operation, mm_model_name, mm_is_cancelled, mm_local,
                   mm_run, mm_queue, dialog, is_downloading, downloaded, mm_calls>>

\* _pull_model, lines 212-223.
pull_update ==
    /\ mm_pc = "pull_update"
    /\ LET u == mm_local.progress
           total_size == IF u.has_total THEN u.total ELSE mm_local.total_size
           completed_size == IF u.has_completed THEN u.completed ELSE mm_local.completed_size
           run == [mm_run EXCEPT !.total_known = @ \/ u.has_total,
                                 !.completed_known = @ \/ u.has_completed]
       IN  /\ mm_local' = [mm_local EXCEPT !.total_size = total_size,
                                           !.completed_size = completed_size]
           /\ mm_run' = run
           /\ mm_emitted' =
                  [run |-> run.id, sig |-> "pull_progress",
                   value |-> IF total_size > 0 THEN Percentage(completed_size, total_size)
                             ELSE -1,
                   kind |-> "update", name |-> "",
                   total_known |-> run.total_known, completed_known |-> run.completed_known,
                   total |-> total_size, completed |-> completed_size]
    /\ mm_pc' = "pull_next"
    /\ UNCHANGED <<chatVars, restVars, mm_operation, mm_model_name, mm_is_cancelled,
                   mm_queue, dialog, is_downloading, downloaded, mm_calls>>

\* _pull_model, line 225.
pull_end ==
    /\ mm_pc = "pull_end"
    /\ mm_pc' = IF mm_is_cancelled THEN "idle" ELSE "emit_pulled"
    /\ UNCHANGED <<chatVars, restVars, mm_operation, mm_model_name, mm_is_cancelled, mm_local,
                   mm_run, mm_emitted, mm_queue, dialog, is_downloading, downloaded, mm_calls>>

\* _pull_model, line 226.
pull_emit_pulled ==
    /\ mm_pc = "emit_pulled"
    /\ mm_emitted' = MMEmission("model_pulled", 0, "", mm_model_name)
    /\ mm_run' = [mm_run EXCEPT !.pulled = @ + 1]
    /\ mm_queue' = Post(mm_queue, "model_pulled")
    /\ mm_pc' = "idle"
    /\ UNCHANGED <<chatVars, restVars, mm_operation, mm_model_name, mm_is_cancelled, mm_local,
                   dialog, is_downloading, downloaded, mm_calls>>

\* ------------------------------ OllamaDesktopApp and ModelDownloadDialog
\* load_installed_models, reached from the settings dialog when the API
\* configuration changed (the manager exists since __init__).
load_installed_models ==
    /\ gui = "idle"
    /\ dialog = "closed"
    /\ mm_calls < MaxCalls
    /\ load_models
    /\ UNCHANGED <<chatVars, restVars, mm_queue, dialog, is_downloading, downloaded>>

\* show_download_dialog up to dialog.exec(): the dialog is constructed and shown.
show_download_dialog ==
    /\ gui = "idle"
    /\ dialog = "closed"
    /\ dialog' = "open"
    /\ is_downloading' = FALSE
    /\ downloaded' = FALSE
    /\ mm_queue' = <<>>
    /\ UNCHANGED <<chatVars, restVars, mm_operation, mm_model_name, mm_is_cancelled, mm_pc,
                   mm_local, mm_run, mm_emitted, mm_calls>>

\* download_selected with a downloadable model selected and the download confirmed.
download_selected(name) ==
    /\ gui = "idle"
    /\ dialog = "open"
    /\ ~is_downloading
    /\ mm_calls < MaxCalls
    /\ is_downloading' = TRUE
    /\ pull_model(name)
    /\ UNCHANGED <<chatVars, restVars, mm_queue, dialog, downloaded>>

\* cancel_download while downloading, the question answered Yes.
cancel_download ==
    /\ gui = "idle"
    /\ dialog = "open"
    /\ is_downloading
    /\ cancel_operation
    /\ is_downloading' = FALSE
    /\ UNCHANGED <<chatVars, restVars, mm_operation, mm_model_name, mm_pc, mm_local,
                   mm_emitted, mm_queue, dialog, downloaded, mm_calls>>

\* What dialog.exec() returns: the dialog is closed by reject() alone (its Close
\* button when not downloading, the window's close button, Escape), and
\* QDialog.Rejected is 0.
ExecResult == 0

\* cancel_download while not downloading closes the dialog, and
\* show_download_dialog goes on after dialog.exec(): it reloads the installed
\* models if the result is true.
close_dialog ==
    /\ gui = "idle"
    /\ dialog = "open"
    /\ ~is_downloading
    /\ dialog' = "closed"
    /\ downloaded' = FALSE
    /\ mm_queue' = <<>>
    /\ IF ExecResult # 0
       THEN /\ load_models
            /\ UNCHANGED <<chatVars, restVars, is_downloading>>
       ELSE UNCHANGED <<chatVars, restVars, mm_operation, mm_model_name, mm_is_cancelled,
                        mm_pc, mm_local, mm_run, mm_emitted, is_downloading, mm_calls>>

\* The dialog's slot model_downloaded.
model_downloaded ==
    /\ gui = "idle"
    /\ dialog = "open"
    /\ mm_queue # <<>>
    /\ Head(mm_queue) = "model_pulled"
    /\ is_downloading' = FALSE
    /\ downloaded' = TRUE
    /\ mm_queue' = Tail(mm_queue)
    /\ UNCHANGED <<chatVars, restVars, mm_operation, mm_model_name, mm_is_cancelled, mm_pc,
                   mm_local, mm_run, mm_emitted, dialog, mm_calls>>

\* The dialog's slot download_error.
download_error ==
    /\ gui = "idle"
    /\ dialog = "open"
    /\ mm_queue # <<>>
    /\ Head(mm_queue) = "error_occurred"
    /\ is_downloading' = FALSE
    /\ mm_queue' = Tail(mm_queue)
    /\ UNCHANGED <<chatVars, restVars, mm_operation, mm_model_name, mm_is_cancelled, mm_pc,
                   mm_local, mm_run, mm_emitted, dialog, downloaded, mm_calls>>

\* ------------------------------------------------------- SettingsDialog
\* A value set into a spin box or slider is brought into the widget's range.
Clamp(v, lo, hi) == IF v < lo THEN lo ELSE IF v > hi THEN hi ELSE v

\* What the dialog shows when opened (setup_ui) and returns when accepted untouched.
Shown ==
    [api |-> [host |-> api_config.host, port |-> Clamp(api_config.port, 1, 65535),
              timeout |-> Clamp(api_config.timeout, 10, 300)],
     model |-> [temperature |-> Clamp(model_config.temperature, 0, 200),
                top_p |-> Clamp(model_config.top_p, 0, 100),
                num_predict |-> Clamp(model_config.num_predict, 1, 8192),
                num_ctx |-> Clamp(model_config.num_ctx, 512, 32768)],
     prompt |-> system_prompt,
     ui |-> [font_size |-> ui_config.font_size, dark_mode |-> ui_config.dark_mode]]

\* reset_to_defaults.
ResetToDefaults ==
    [api |-> [host |-> "localhost", port |-> 11434, timeout |-> 30],
     model |-> [temperature |-> 70, top_p |-> 90, num_predict |-> 1024, num_ctx |-> 4096],
     prompt |-> <<>>,
     ui |-> [font_size |-> 12, dark_mode |-> TRUE]]

\* What the user can have entered when accepting: the shown values, the reset
\* values, a longer timeout alone, or the ends of every range.
DialogValues ==
    {Shown, ResetToDefaults,
     [Shown EXCEPT !.api.timeout = 300],
     [api |-> [host |-> "remote", port |-> 65535, timeout |-> 300],
      model |-> [temperature |-> 200, top_p |-> 100, num_predict |-> 8192,
                 num_ctx |-> 32768],
      prompt |-> <<"s">>, ui |-> [font_size |-> 12, dark_mode |-> FALSE]],
     [api |-> [host |-> "localhost", port |-> 1, timeout |-> 10],
      model |-> [temperature |-> 0, top_p |-> 0, num_predict |-> 1, num_ctx |-> 512],
      prompt |-> <<>>, ui |-> [font_size |-> 12, dark_mode |-> TRUE]]}

\* show_settings_dialog with the dialog accepted: the configurations are
\* replaced, the chat is cleared if the system prompt changed and the user
\* agrees, the settings are saved, and the models are reloaded if the API
\* configuration changed.
show_settings_dialog(d, clear) ==
    /\ gui = "idle"
    /\ dialog = "closed"
    /\ settings_count < MaxSettings
    /\ settings_count' = settings_count + 1
    /\ api_config' = d.api
    /\ model_config' = d.model
    /\ system_prompt' = d.prompt
    /\ ui_config' = d.ui
    /\ IF d.prompt # system_prompt /\ Len(message_history) > 0 /\ clear
       THEN /\ message_history' = Cleared(message_history)
            /\ workers' = MarkRaced(workers)
       ELSE UNCHANGED <<message_history, workers>>
    /\ settings' = Stored(d.api, d.model, d.prompt, d.ui, default_model)
    /\ IF d.api # api_config
       THEN /\ mm_api_config' = d.api
            /\ load_models
       ELSE UNCHANGED <<mm_api_config, mm_operation, mm_model_name, mm_is_cancelled, mm_pc,
                        mm_run, mm_local, mm_emitted, mm_calls>>
    /\ UNCHANGED <<ollama_worker, gui, pending_model, queue, send_btn, model_combo, emitted,
                   delivered, limitVars, utilVars, default_model, mm_queue, dialog,
                   is_downloading, downloaded>>

\* set_default_model, reached from set_current_as_default (toolbar button and
\* Tools menu) and from the selector's context menu, with a model selected.
set_default_model ==
    /\ gui = "idle"
    /\ dialog = "closed"
    /\ model_combo # ""
    /\ default_model' = model_combo
    /\ settings' = SetValue(settings, "app_default_model", model_combo)
    /\ UNCHANGED <<chatVars, limitVars, utilVars, pullVars, api_config, model_config,
                   ui_config, mm_api_config, settings_count>>

\* clear_default_model with the question answered Yes.
clear_default_model ==
    /\ gui = "idle"
    /\ dialog = "closed"
    /\ default_model # ""
    /\ default_model' = ""
    /\ settings' = SetValue(settings, "app_default_model", "")
    /\ UNCHANGED <<chatVars, limitVars, utilVars, pullVars, api_config, model_config,
                   ui_config, mm_api_config, settings_count>>

\* closeEvent: cancel() the current worker and wait at most 3 s for it, the same
\* for the model manager (always constructed by __init__), save the settings,
\* then accept the close.
closeEvent ==
    /\ gui = "idle"
    /\ dialog = "closed"
    /\ workers' = IF ollama_worker # 0 THEN cancel(ollama_worker) ELSE workers
    /\ mm_is_cancelled' = TRUE
    /\ mm_run' = NoteCancel(mm_run)
    /\ save_settings
    /\ gui' = "closed"
    /\ UNCHANGED <<message_history, ollama_worker, pending_model, queue, send_btn,
                   model_combo, system_prompt, emitted, delivered, limitVars, utilVars,
                   api_config, model_config, ui_config, default_model, mm_api_config,
                   settings_count,
                   mm_operation, mm_model_name, mm_pc, mm_local, mm_emitted, mm_queue,
                   dialog, is_downloading, downloaded, mm_calls>>

\* ------------------------------------------------------ specification
InitApp ==
    /\ message_history = <<>>
    /\ workers = <<>>
    /\ ollama_worker = 0
    /\ gui = "idle"
    /\ pending_model = ""
    /\ queue = <<>>
    /\ send_btn = TRUE
    /\ model_combo \in Models \cup {""}
    /\ emitted = <<>>
    /\ delivered = <<>>

\* The configuration of a session that starts from the fallbacks, and a store
\* that holds what such a session saved.
InitConfig ==
    /\ api_config = LoadedApi(Fallback)
    /\ model_config = LoadedModel(Fallback)
    /\ ui_config = LoadedUi(Fallback)
    /\ default_model = ""
    /\ settings = Stored(api_config, model_config, system_prompt, ui_config, default_model)
    /\ mm_api_config = api_config
    /\ settings_count = 0

\* No pure function has been applied.
InitUtil ==
    /\ size_bytes = [mant |-> 0, exp |-> 0]
    /\ formatted = NotFormatted
    /\ models = <<>>
    /\ valid_models = <<>>
    /\ filter_stage = 0

\* The model manager once the load started by __init__ has finished.
InitManagerIdle ==
    /\ mm_operation = "load"
    /\ mm_model_name = ""
    /\ mm_is_cancelled = FALSE
    /\ mm_pc = "idle"
    /\ mm_local = NoLocal
    /\ mm_run = [NoRun EXCEPT !.id = 1]
    /\ mm_emitted = NoEmission
    /\ mm_queue = <<>>
    /\ dialog = "closed"
    /\ is_downloading = FALSE
    /\ downloaded = FALSE
    /\ mm_calls = 1

\* The model manager as __init__ leaves it: load_models() has started the thread.
InitManager ==
    /\ mm_operation = "load"
    /\ mm_model_name = ""
    /\ mm_is_cancelled = FALSE
    /\ mm_pc = "run"
    /\ mm_local = NoLocal
    /\ mm_run = [NoRun EXCEPT !.id = 1]
    /\ mm_emitted = NoEmission
    /\ mm_queue = <<>>
    /\ dialog = "closed"
    /\ is_downloading = FALSE
    /\ downloaded = FALSE
    /\ mm_calls = 0

\* Several sends, each answered by a stream of at most one chunk.
InitChat ==
    /\ InitApp
    /\ InitManagerIdle
    /\ InitUtil
    /\ system_prompt = <<>>
    /\ send_limit = MaxSends
    /\ chunk_limit = 1
    /\ InitConfig

\* One send, answered by a stream of up to MaxChunks chunks, under any system prompt.
InitWorker ==
    /\ InitApp
    /\ InitManagerIdle
    /\ InitUtil
    /\ system_prompt \in Prompts
    /\ send_limit = 1
    /\ chunk_limit = MaxChunks
    /\ InitConfig

Workers == 1..Len(workers)

\* One step of one worker thread.
WorkerStep ==
    \/ \E w \in Workers : run_begin(w)
    \/ \E w \in Workers : build_step(w)
    \/ \E w \in Workers : chat_call(w)
    \/ \E w \in Workers : next_chunk(w)
    \/ \E w \in Workers : check_cancel(w)
    \/ \E w \in Workers : handle_content(w)
    \/ \E w \in Workers : handle_done(w)
    \/ \E w \in Workers : except_check(w)
    \/ \E w \in Workers : emit_error(w)

NextWorker ==
    \/ \E raw \in RawInputs : send_message(raw)
    \/ on_response_received
    \/ on_error
    \/ on_worker_finished
    \/ clear_chat
    \/ closeEvent
    \/ WorkerStep

NextChat ==
    \/ NextWorker
    \/ send_message_resume

SpecChat == InitChat /\ [][NextChat]_vars

SpecWorker == InitWorker /\ [][NextWorker]_vars

\* The chat with the threads scheduled fairly: a worker thread that can take a
\* step takes it (every stream here is finite), and the GUI event loop delivers
\* the queued signals and returns from wait() once the worker has finished.
\* What the user does is under no fairness.  Clearing the chat is left out: it
\* changes the transcript only, which the send control never depends on.
NextChatFair ==
    \/ \E raw \in RawInputs : send_message(raw)
    \/ send_message_resume
    \/ on_response_received
    \/ on_error
    \/ on_worker_finished
    \/ closeEvent
    \/ WorkerStep

SpecChatFair ==
    /\ InitChat
    /\ [][NextChatFair]_vars
    /\ WF_vars(WorkerStep)
    /\ WF_vars(on_response_received)
    /\ WF_vars(on_error)
    /\ WF_vars(on_worker_finished)
    /\ WF_vars(send_message_resume)

\* One chat request, with the user changing the model selection at any time
\* the GUI thread is in its event loop.
InitSelect ==
    /\ InitApp
    /\ InitManagerIdle
    /\ InitUtil
    /\ system_prompt = <<>>
    /\ send_limit = 1
    /\ chunk_limit = MaxChunks
    /\ InitConfig

NextSelect ==
    \/ NextWorker
    \/ \E m \in Selectable : select_model(m)

SpecSelect == InitSelect /\ [][NextSelect]_vars

\* The model manager, the download dialog and the main window's reloads.
InitPull ==
    /\ InitApp
    /\ InitManager
    /\ InitUtil
    /\ system_prompt = <<>>
    /\ send_limit = 0
    /\ chunk_limit = 0
    /\ InitConfig

NextPull ==
    \/ load_installed_models
    \/ show_download_dialog
    \/ \E name \in PullNames : download_selected(name)
    \/ cancel_download
    \/ close_dialog
    \/ model_downloaded
    \/ download_error
    \/ closeEvent
    \/ mm_dispatch
    \/ load_list
    \/ load_iter
    \/ load_check
    \/ load_emit
    \/ mm_except_check
    \/ mm_emit_error
    \/ pull_begin
    \/ pull_next
    \/ pull_check
    \/ pull_update
    \/ pull_end
    \/ pull_emit_pulled

SpecPull == InitPull /\ [][NextPull]_vars

\* One step of the ModelManager thread.
ManagerStep ==
    \/ mm_dispatch
    \/ load_list
    \/ load_iter
    \/ load_check
    \/ load_emit
    \/ mm_except_check
    \/ mm_emit_error
    \/ pull_begin
    \/ pull_next
    \/ pull_check
    \/ pull_update
    \/ pull_end
    \/ pull_emit_pulled

\* The same with the threads scheduled fairly: the manager thread takes its next
\* step (every inventory and every pull stream here is finite), and the event
\* loop delivers the signals queued for the dialog.  What the user does is under
\* no fairness.
SpecPullFair ==
    /\ InitPull
    /\ [][NextPull]_vars
    /\ WF_vars(ManagerStep)
    /\ WF_vars(model_downloaded)
    /\ WF_vars(download_error)

\* What the persisted store can hold at startup: nothing, what an earlier
\* session saved, or values written by another hand (the store is a plain file
\* or registry branch, read without any range check).
StoredSettings ==
    {Fallback,
     Stored(ResetToDefaults.api, ResetToDefaults.model, <<"s">>, ResetToDefaults.ui, ""),
     Stored([host |-> "localhost", port |-> 70000, timeout |-> 5],
            [temperature |-> 250, top_p |-> 150, num_predict |-> 0, num_ctx |-> 128],
            <<>>, ResetToDefaults.ui, "")}

\* One chat request, the settings dialog, and the model manager's reloads.
InitSettings ==
    /\ InitApp
    /\ InitManager
    /\ InitUtil
    /\ send_limit = 1
    /\ chunk_limit = 1
    /\ settings \in StoredSettings
    /\ api_config = LoadedApi(settings)
    /\ model_config = LoadedModel(settings)
    /\ system_prompt = Setting(settings, "model_system_prompt")
    /\ ui_config = LoadedUi(settings)
    /\ default_model = Setting(settings, "app_default_model")
    /\ mm_api_config = api_config
    /\ settings_count = 0

\* The configuration and its persisted copy under everything that changes
\* either: the settings dialog, the default model, the selector and the close.
InitPersist ==
    /\ InitApp
    /\ InitManager
    /\ InitUtil
    /\ send_limit = 0
    /\ chunk_limit = 0
    /\ settings \in StoredSettings
    /\ api_config = LoadedApi(settings)
    /\ model_config = LoadedModel(settings)
    /\ system_prompt = Setting(settings, "model_system_prompt")
    /\ ui_config = LoadedUi(settings)
    /\ default_model = Setting(settings, "app_default_model")
    /\ mm_api_config = api_config
    /\ settings_count = 0

NextPersist ==
    \/ \E d \in DialogValues, clear \in BOOLEAN : show_settings_dialog(d, clear)
    \/ set_default_model
    \/ clear_default_model
    \/ \E m \in Selectable : select_model(m)
    \/ closeEvent

SpecPersist == InitPersist /\ [][NextPersist]_vars

NextSettings ==
    \/ NextWorker
    \/ \E d \in DialogValues, clear \in BOOLEAN : show_settings_dialog(d, clear)
    \/ mm_dispatch
    \/ load_list
    \/ load_iter
    \/ load_check
    \/ load_emit
    \/ mm_except_check
    \/ mm_emit_error

SpecSettings == InitSettings /\ [][NextSettings]_vars

\* The two size formatters, each applied to a byte count.
InitFormat ==
    /\ InitApp
    /\ InitManagerIdle
    /\ system_prompt = <<>>
    /\ send_limit = 0
    /\ chunk_limit = 0
    /\ size_bytes \in SizeInputs
    /\ formatted = NotFormatted
    /\ models = <<>>
    /\ valid_models = <<>>
    /\ filter_stage = 0
    /\ InitConfig

NextFormat == manager_format_size \/ dialog_format_size

SpecFormat == InitFormat /\ [][NextFormat]_vars

\* The model filter, applied to a list of identifiers and then to its result.
InitFilter ==
    /\ InitApp
    /\ InitManagerIdle
    /\ system_prompt = <<>>
    /\ send_limit = 0
    /\ chunk_limit = 0
    /\ size_bytes = [mant |-> 0, exp |-> 0]
    /\ formatted = NotFormatted
    /\ models \in ModelLists
    /\ valid_models = <<>>
    /\ filter_stage = 0
    /\ InitConfig

\* The default model and the selection before a load: none, an installed model
\* the filter keeps, another one, or one the filter drops.
NameChoices ==
    {<<>>,
     <<"c", "o", "d", "e", "l", "l", "a", "m", "a", ":", "l", "a", "t", "e", "s", "t">>,
     <<"M", "i", "s", "t", "r", "a", "l">>,
     <<"l", "l", "a", "m", "a", "3", ".", "2", ":", "t", "e", "s", "t">>}

\* The installed models of the lists that arrive: the non-empty names above and
\* one more model the filter keeps.
InstalledPool ==
    (NameChoices \ {<<>>})
        \cup {<<"l", "l", "a", "m", "a", "3", ".", "2", ":", "l", "a", "t", "e", "s", "t">>}

RECURSIVE InstalledLists(_)
InstalledLists(n) ==
    IF n = 0 THEN {<<>>}
    ELSE LET shorter == InstalledLists(n - 1)
         IN  shorter \cup {Append(s, x) : s \in shorter, x \in InstalledPool}

\* An installed-model list arrives at the main window.
InitLoaded ==
    /\ message_history = <<>>
    /\ workers = <<>>
    /\ ollama_worker = 0
    /\ gui = "idle"
    /\ pending_model = ""
    /\ queue = <<>>
    /\ send_btn = TRUE
    /\ model_combo \in NameChoices
    /\ emitted = <<>>
    /\ delivered = <<>>
    /\ InitManagerIdle
    /\ system_prompt = <<>>
    /\ send_limit = 0
    /\ chunk_limit = 0
    /\ size_bytes = [mant |-> 0, exp |-> 0]
    /\ formatted = NotFormatted
    /\ models \in InstalledLists(MaxModels)
    /\ valid_models = <<>>
    /\ filter_stage = 0
    /\ api_config = LoadedApi(Fallback)
    /\ model_config = LoadedModel(Fallback)
    /\ ui_config = LoadedUi(Fallback)
    /\ default_model \in NameChoices
    /\ settings = Stored(api_config, model_config, system_prompt, ui_config, default_model)
    /\ mm_api_config = api_config
    /\ settings_count = 0

NextLoaded == on_installed_models_loaded

SpecLoaded == InitLoaded /\ [][NextLoaded]_vars

\* The names of ModelDownloadDialog.AVAILABLE_MODELS, the curated catalog.
AVAILABLE_MODELS ==
    {<<"l", "l", "a", "m", "a", "3", ".", "2", ":", "l", "a", "t", "e", "s", "t">>,
     <<"l", "l", "a", "m", "a", "3", ".", "2", ":", "8", "b">>,
     <<"l", "l", "a", "m", "a", "3", ".", "2", ":", "3", "b">>,
     <<"l", "l", "a", "m", "a", "3", ".", "2", ":", "1", "b">>,
     <<"m", "i", "s", "t", "r", "a", "l", ":", "l", "a", "t", "e", "s", "t">>,
     <<"m", "i", "s", "t", "r", "a", "l", "-", "s", "m", "a", "l", "l", "3", ".", "2", ":", "l", "a", "t", "e", "s", "t">>,
     <<"c", "o", "d", "e", "l", "l", "a", "m", "a", ":", "l", "a", "t", "e", "s", "t">>,
     <<"p", "h", "i", "3", ":", "l", "a", "t", "e", "s", "t">>,
     <<"g", "e", "m", "m", "a", ":", "l", "a", "t", "e", "s", "t">>,
     <<"q", "w", "e", "n", ":", "l", "a", "t", "e", "s", "t">>,
     <<"q", "w", "e", "n", "2", ".", "5", ":", "4", "b">>,
     <<"q", "w", "e", "n", "2", ".", "5", ":", "7", "b">>,
     <<"q", "w", "e", "n", "3", ":", "1", ".", "7", "b">>,
     <<"q", "w", "e", "n", "3", ":", "4", "b">>,
     <<"q", "w", "e", "n", "3", ":", "8", "b">>,
     <<"n", "e", "u", "r", "a", "l", "-", "c", "h", "a", "t", ":", "l", "a", "t", "e", "s", "t">>,
     <<"s", "t", "a", "r", "l", "i", "n", "g", "-", "l", "m", ":", "l", "a", "t", "e", "s", "t">>,
     <<"v", "i", "c", "u", "n", "a", ":", "l", "a", "t", "e", "s", "t">>,
     <<"o", "r", "c", "a", "-", "m", "i", "n", "i", ":", "l", "a", "t", "e", "s", "t">>,
     <<"z", "e", "p", "h", "y", "r", ":", "l", "a", "t", "e", "s", "t">>}

\* Installed-model lists made of one or two catalog models.
CatalogLists ==
    {<<c>> : c \in AVAILABLE_MODELS} \cup {<<c, d>> : c, d \in AVAILABLE_MODELS}

\* The model filter applied to installed catalog models.
InitCatalog ==
    /\ InitApp
    /\ InitManagerIdle
    /\ system_prompt = <<>>
    /\ send_limit = 0
    /\ chunk_limit = 0
    /\ size_bytes = [mant |-> 0, exp |-> 0]
    /\ formatted = NotFormatted
    /\ models \in CatalogLists
    /\ valid_models = <<>>
    /\ filter_stage = 0
    /\ InitConfig

SpecCatalog == InitCatalog /\ [][apply_filter \/ apply_filter_again]_vars

NextFilter == apply_filter \/ apply_filter_again

SpecFilter == InitFilter /\ [][NextFilter]_vars

\* ---------------------------------------------------- what was emitted
EventsOf(w) == SelectSeq(emitted, LAMBDA e : e.w = w)

Count(w, sig) == Len(SelectSeq(emitted, LAMBDA e : e.w = w /\ e.sig = sig))

\* The arguments of worker w's emissions of sig, in emission order.
RECURSIVE ArgsOf(_, _, _)
ArgsOf(es, w, sig) ==
    IF es = <<>> THEN <<>>
    ELSE (IF Head(es).w = w /\ Head(es).sig = sig THEN <<Head(es).arg>> ELSE <<>>)
         \o ArgsOf(Tail(es), w, sig)

\* The concatenation of a sequence of texts.
RECURSIVE Flatten(_)
Flatten(ts) == IF ts = <<>> THEN <<>> ELSE Head(ts) \o Flatten(Tail(ts))

Contents(chunks) == [i \in 1..Len(chunks) |-> chunks[i].content]

GotDone(w) ==
    /\ workers[w].received # <<>>
    /\ workers[w].received[Len(workers[w].received)].done

\* ------------------------------------------------------------- claims

\* C1 (as claimed): a send_message invoked while the previous request is still
\* streaming cancels that request before the new one starts, and afterwards no
\* message_complete of the previous request reaches on_response_received.
C1_PriorCancelledBeforeNewSend ==
    /\ \A w \in Workers :
         workers[w].prev_active => workers[w - 1].is_cancelled
    /\ \A i \in 1..Len(delivered) :
         (delivered[i].current # delivered[i].w /\ workers[delivered[i].w + 1].prev_active)
            => FALSE

\* C2: at most one worker is running at any time, a worker is constructed and
\* started only when every earlier one has returned from run(), and every
\* emission of request k precedes every emission of request k+1.
C2_OneStreamAtATime ==
    /\ Cardinality({w \in Workers : workers[w].pc # "finished"}) <= 1
    /\ \A w \in Workers : w < Len(workers) => workers[w].pc = "finished"
    /\ \A i, j \in 1..Len(emitted) : i < j => emitted[i].w <= emitted[j].w

\* Two requests, the second sent while the first was running, have both emitted.
C2_Witness ==
    /\ Len(workers) >= 2
    /\ workers[2].prev_active
    /\ \E i, j \in 1..Len(emitted) : emitted[i].w = 1 /\ emitted[j].w = 2

\* C3 (as claimed): a stream that is exhausted without a done chunk, in a request
\* that was not cancelled, yields exactly one error_occurred and no message_complete.
C3_ExhaustedStreamIsAnError ==
    \A w \in Workers :
        (workers[w].pc = "finished" /\ workers[w].exhausted /\ ~workers[w].is_cancelled)
            => (Count(w, "error_occurred") = 1 /\ Count(w, "message_complete") = 0)

\* C4 (as claimed): once cancel() has been called on a worker, it emits no further
\* message_chunk and no message_complete.
C4_NoEmissionAfterCancel ==
    [][\A w \in Workers :
          workers[w].is_cancelled =>
              /\ ArgsOf(emitted', w, "message_chunk") = ArgsOf(emitted, w, "message_chunk")
              /\ ArgsOf(emitted', w, "message_complete") = ArgsOf(emitted, w, "message_complete")
      ]_vars

\* C5: a request that was not cancelled and received a chunk with done=true has
\* emitted message_complete exactly once, as its last event, carrying the
\* concatenation in arrival order of the fragments received, which is also the
\* concatenation of the message_chunk payloads it emitted.
C5_CompleteCarriesAllFragments ==
    \A w \in Workers :
        (workers[w].pc = "finished" /\ ~workers[w].is_cancelled /\ GotDone(w)) =>
            /\ Count(w, "message_complete") = 1
            /\ Count(w, "error_occurred") = 0
            /\ EventsOf(w)[Len(EventsOf(w))].sig = "message_complete"
            /\ ArgsOf(emitted, w, "message_complete")
                 = <<Flatten(Contents(workers[w].received))>>
            /\ Flatten(ArgsOf(emitted, w, "message_chunk"))
                 = Flatten(Contents(workers[w].received))
            /\ Len(ArgsOf(emitted, w, "message_chunk"))
                 = Cardinality({i \in 1..Len(workers[w].received) :
                                    workers[w].received[i].content # <<>>})

\* A completed request whose stream carried two non-empty fragments.
C5_Witness ==
    \E w \in Workers :
        /\ workers[w].pc = "finished" /\ ~workers[w].is_cancelled /\ GotDone(w)
        /\ ArgsOf(emitted, w, "message_complete") = <<(<<"a", "b">>)>>

\* C6: a request that was not cancelled and met a transport or server error has
\* emitted exactly one error_occurred and no message_complete, after a single
\* client.chat call; no request emits both a completion and an error.
C6_OneErrorNoRetry ==
    \A w \in Workers :
        /\ workers[w].nchat <= 1
        /\ ~(Count(w, "message_complete") >= 1 /\ Count(w, "error_occurred") >= 1)
        /\ Count(w, "error_occurred") <= 1
        /\ (workers[w].pc = "finished" /\ workers[w].raised /\ ~workers[w].is_cancelled) =>
              /\ Count(w, "error_occurred") = 1
              /\ Count(w, "message_complete") = 0

\* A request that failed in mid-stream, after emitting content.
C6_Witness ==
    \E w \in Workers :
        /\ workers[w].pc = "finished" /\ workers[w].raised /\ ~workers[w].is_cancelled
        /\ Count(w, "message_chunk") >= 1
        /\ Count(w, "error_occurred") = 1

PayloadBuilt(w) == workers[w].built

PullRunOver == mm_pc = "idle" /\ mm_run.pull_name # ""

\* C8: cancelling an active pull (cancel_operation called while the pull stream
\* is being consumed) always results in a terminal pull_progress update that
\* signals the cancellation, and never in a model_pulled event for that pull.
C8_CancelledPullSignalsCancellation ==
    mm_run.cancel_in_stream =>
        /\ mm_run.pulled = 0
        /\ PullRunOver => mm_emitted.sig = "pull_progress" /\ mm_emitted.kind = "cancelled"

\* C9: each pull progress update carries floor(completed / total * 100) exactly
\* when a total and a completed count have both been received and total > 0,
\* and -1 (indeterminate) in every other case.
C9_ProgressIsFloorOrIndeterminate ==
    (mm_emitted.sig = "pull_progress" /\ mm_emitted.kind = "update") =>
        mm_emitted.value =
            IF mm_emitted.total_known /\ mm_emitted.completed_known /\ mm_emitted.total > 0
            THEN (mm_emitted.completed * 100) \div mm_emitted.total
            ELSE -1

\* C10: a pull stream that ends without cancellation or error yields exactly one
\* model_pulled, carrying the name of the model whose download was started,
\* whatever pull_model / load_models / cancel_operation calls were made meanwhile.
C10_PulledNamesTheStartedDownload ==
    /\ mm_run.pulled <= 1
    /\ mm_emitted.sig = "model_pulled" => mm_emitted.name = mm_run.pull_name
    /\ (PullRunOver /\ mm_run.ended /\ ~mm_run.cancel_called /\ ~mm_run.raised) =>
           mm_run.pulled = 1

\* The operations the thread is executing.
Executing ==
    (IF mm_pc \in {"list", "load_iter", "load_check", "load_emit", "load_except"}
     THEN {"list"} ELSE {})
    \cup (IF mm_pc \in {"pull_begin", "pull_next", "pull_check", "pull_update", "pull_end",
                        "emit_pulled", "pull_except"}
          THEN {"pull"} ELSE {})

\* C11: within one ModelManager a list operation and a pull operation never
\* execute at the same time: no run is started while another is executing, so at
\* most one operation runs, whatever load_models / pull_model calls are made.
C11_OneOperationAtATime == ~mm_run.overlap /\ Cardinality(Executing) <= 1

\* A pull has been requested while the list operation is executing.
C11_Witness == Executing = {"list"} /\ mm_operation = "pull" /\ mm_calls > 0

\* ------------------------------------------------------ pure functions
\* The index (0 for B .. 5 for PB) of a unit.
UnitIndex(unit) ==
    IF unit = "PB" THEN Len(Units) ELSE (CHOOSE i \in 1..Len(Units) : Units[i] = unit) - 1

\* C12: for every byte count n >= 0 a size formatter returns n scaled to the
\* binary unit k with n / 1024^k < 1024, with no decimals for B and one decimal
\* otherwise, and "0 B" for 0; this holds of the manager's formatter and of the
\* dialog's.
C12_FormatScalesToUnit ==
    formatted.by # "none" =>
        /\ ~formatted.unknown
        /\ formatted.unit \in {"B", "KB", "MB", "GB", "TB", "PB"}
        /\ Less1024(size_bytes.mant, size_bytes.exp - UnitIndex(formatted.unit))
        /\ formatted.decimals = (IF formatted.unit = "B" THEN 0 ELSE 1)
        /\ formatted.number =
               IF formatted.unit = "B" THEN size_bytes.mant * Pow1024(size_bytes.exp)
               ELSE Tenths(size_bytes.mant, size_bytes.exp - UnitIndex(formatted.unit))

\* C13: filter_valid_models is idempotent: filtering the result of the filter
\* returns that result unchanged, for every list of identifiers.
C13_FilterIdempotent ==
    /\ filter_stage = 2 => valid_models = models
    /\ filter_valid_models(filter_valid_models(models)) = filter_valid_models(models)

\* The filter has been applied twice, to a list it shortened and reordered.
C13_Witness ==
    /\ filter_stage = 2
    /\ valid_models = <<<<"c", "o", "d", "e", "l", "l", "a", "m", "a", ":", "l", "a", "t", "e", "s", "t">>,
                        <<"l", "l", "a", "m", "a", "3", ".", "2", ":", "l", "a", "t", "e", "s", "t">>>>

\* How often x occurs in the list s.
Occurrences(x, s) == Cardinality({i \in 1..Len(s) : s[i] = x})

\* What follows the first colon of an identifier that has one.
AfterFirstColon(id) ==
    LET colons == {j \in 1..Len(id) : id[j] = ":"}
        first == CHOOSE j \in colons : \A k \in colons : j <= k
    IN  [i \in 1..(Len(id) - first) |-> id[first + i]]

\* The six rules of the filter, on the lower-cased identifier.
PassesRules(id) ==
    LET low == Lower(id)
    IN  /\ \A k \in 1..Len(SkipPatterns) : ~Contains(SkipPatterns[k], low)
        /\ Contains(<<"t", "e", "s", "t">>, low) => Contains(<<"l", "a", "t", "e", "s", "t">>, low)
        /\ (\E j \in 1..Len(id) : id[j] = ":") =>
               \A k \in 1..Len(InvalidTags) : ~Contains(InvalidTags[k], AfterFirstColon(low))
        /\ \A k \in 1..Len(DeprecatedModels) : ~Contains(DeprecatedModels[k], low)
        /\ \A k \in 1..Len(LargeSizes) : ~Contains(LargeSizes[k], low)
        /\ \E k \in 1..Len(ValidPatterns) : Contains(ValidPatterns[k], low)

\* C14: filter_valid_models returns exactly the input identifiers that pass all
\* six rules, each with its input multiplicity, sorted ascending; the example
\* list yields exactly [codellama:latest, llama3.2:latest].
C14_FilterKeepsExactlyThePassing ==
    filter_stage = 1 =>
        /\ \A i \in 1..Len(valid_models), j \in 1..Len(valid_models) :
               i < j => ~StrLess(valid_models[j], valid_models[i])
        /\ \A id \in ModelPool :
               Occurrences(id, valid_models) =
                   IF PassesRules(id) THEN Occurrences(id, models) ELSE 0
        /\ \A i \in 1..Len(valid_models) : valid_models[i] \in ModelPool
        /\ models = Example =>
               valid_models = <<<<"c", "o", "d", "e", "l", "l", "a", "m", "a", ":", "l", "a", "t", "e", "s", "t">>,
                                <<"l", "l", "a", "m", "a", "3", ".", "2", ":", "l", "a", "t", "e", "s", "t">>>>

\* The filter has been applied to the example list.
C14_Witness == filter_stage = 1 /\ models = Example /\ Len(valid_models) = 2

\* ------------------------------------------------------------ the chat
\* C15: after clear_chat, whatever turns were appended before, the transcript
\* holds no message, and clear_chat changes no persisted settings key and no
\* in-memory configuration record.
C15_ClearChatOnlyEmptiesTranscript ==
    [][clear_chat =>
          /\ message_history' = <<>>
          /\ settings' = settings
          /\ api_config' = api_config
          /\ model_config' = model_config
          /\ system_prompt' = system_prompt
          /\ ui_config' = ui_config
          /\ default_model' = default_model
          /\ mm_api_config' = mm_api_config]_vars

\* The transcript is empty after a user turn and an assistant turn were appended.
C15_Witness ==
    /\ message_history = <<>>
    /\ delivered # <<>>
    /\ settings.keys = SettingKeys

\* C16: in every reachable state, also right after the configuration has been
\* loaded from the persisted store, the parameters handed to a worker are within
\* the ranges the settings dialog enforces: temperature in [0.0, 2.0], top_p in
\* [0.0, 1.0], num_predict in 1..8192, num_ctx in 512..32768, port in 1..65535.
C16_WorkerParametersInRange ==
    \A w \in Workers :
        /\ workers[w].model_config.temperature \in 0..200
        /\ workers[w].model_config.top_p \in 0..100
        /\ workers[w].model_config.num_predict \in 1..8192
        /\ workers[w].model_config.num_ctx \in 512..32768
        /\ workers[w].api_config.port \in 1..65535

\* C20: every client created for a chat, list or pull call is configured with
\* the timeout of the current APIConfig.
C20_ClientsUseConfiguredTimeout ==
    /\ \A w \in Workers :
           workers[w].client.created =>
               /\ workers[w].client.timeout_set
               /\ workers[w].client.timeout = workers[w].api_config.timeout
    /\ mm_local.client.created =>
           /\ mm_local.client.timeout_set
           /\ mm_local.client.timeout = mm_api_config.timeout

\* C17: while a chat request is active, from the start of its worker until the
\* worker's run() has returned, the GUI does not change the transcript: no
\* clear_chat and no append to message_history.
C17_TranscriptUntouchedWhileActive ==
    [][(\E w \in Workers : workers[w].pc # "finished") =>
          message_history' = message_history]_vars

\* C18: an error raised after cancellation was requested is suppressed: a list or
\* pull operation whose cancel flag was set when the exception was raised emits
\* no error_occurred; nor does a chat request cancelled before it raised.
C18_ErrorsAfterCancelSuppressed ==
    /\ mm_run.cancelled_at_raise => mm_run.errors = 0
    /\ \A w \in Workers :
           (workers[w].raised /\ workers[w].is_cancelled /\ workers[w].pc = "finished")
               => Count(w, "error_occurred") = 0

\* C19: after any outcome of a chat request (completion, error, stream end
\* without done) the application comes back to a state in which the send control
\* is enabled and the GUI is ready for a new send_message, unless the window has
\* been closed; no failure leaves the session unable to send for ever.
C19_SendControlComesBack ==
    (\E w \in Workers : workers[w].pc = "finished")
        ~> (gui = "closed" \/ (gui = "idle" /\ send_btn))

\* A request has failed, its events are delivered and the send control is enabled.
C19_Witness ==
    /\ \E w \in Workers : workers[w].pc = "finished" /\ workers[w].raised
    /\ queue = <<>>
    /\ gui = "idle"
    /\ send_btn

\* C21 (as claimed): every assistant message appended to the transcript records
\* as its model the model name the request that produced it was sent to, even if
\* the model selection is changed while the request is in flight.
C21_AssistantRecordsOriginatingModel ==
    [][Len(delivered') = Len(delivered) + 1 =>
          LET msg == message_history'[Len(message_history')]
              w == delivered'[Len(delivered')].w
          IN  /\ msg.role = "assistant"
              /\ msg.model = workers[w].model
      ]_vars

\* The configuration the application would load from the store now.
Reloaded ==
    [api |-> LoadedApi(settings), model |-> LoadedModel(settings),
     prompt |-> Setting(settings, "model_system_prompt"), ui |-> LoadedUi(settings),
     default |-> Setting(settings, "app_default_model")]

InMemory ==
    [api |-> api_config, model |-> model_config, prompt |-> system_prompt,
     ui |-> ui_config, default |-> default_model]

C22_WitnessOneKey ==
    /\ settings.keys = {"app_default_model"}
    /\ default_model = "mistral"

\* C23 (as claimed): when the download dialog is closed after a successful model
\* download, the main window reloads the installed-model list: the step that
\* closes the dialog calls load_installed_models, hence ModelManager.load_models.
C23_ReloadAfterDownload ==
    [][(dialog = "open" /\ dialog' = "closed" /\ downloaded) =>
           (mm_calls' = mm_calls + 1 /\ mm_operation' = "load")
      ]_vars

\* C24: whenever an installed-model list is loaded, the selected model afterwards
\* is the default model if a default is set and present in the filtered list;
\* otherwise it is the previously selected model if that is still present in the
\* filtered list.
C24_DefaultThenPreviousSelection ==
    [][filter_stage' = 1 =>
          LET filtered == filter_valid_models(models)
          IN  IF default_model # <<>> /\ InList(default_model, filtered)
              THEN model_combo' = default_model
              ELSE InList(model_combo, filtered) => model_combo' = model_combo
      ]_vars

\* A list holding both the default model and the model selected before has been
\* loaded, and the default is selected.
C24_Witness ==
    /\ filter_stage = 1
    /\ default_model = <<"M", "i", "s", "t", "r", "a", "l">>
    /\ InList(<<"c", "o", "d", "e", "l", "l", "a", "m", "a", ":", "l", "a", "t", "e", "s", "t">>,
              valid_models)
    /\ InList(default_model, valid_models)
    /\ model_combo = default_model

\* The current run of the thread has emitted a terminal event.
RunTerminal ==
    \/ mm_emitted.sig \in {"models_loaded", "model_pulled", "error_occurred"}
    \/ mm_emitted.sig = "pull_progress" /\ mm_emitted.kind = "cancelled"

\* C25 (as claimed): every load_models or pull_model request eventually produces
\* a terminal event of its own (models_loaded, model_pulled, error_occurred or a
\* cancellation update), also when it is made while the thread is still running
\* an earlier operation.  Only a run of the thread emits events, one terminal
\* event at most, and the load of __init__ is run 1: so the k-th request made
\* afterwards needs run k + 1 to start and to end in a terminal event, unless the
\* window is closed.
C25_EveryRequestAnswered ==
    \A k \in 1..MaxCalls :
        (mm_calls = k) ~>
            \/ gui = "closed"
            \/ mm_run.id > k + 1
            \/ mm_run.id = k + 1 /\ RunTerminal

\* C26 (as claimed): once cancel_operation has been called while an operation is
\* running, that operation stays cancelled until its thread terminates: while the
\* run goes on, the cancel flag it reads stays set, whatever load_models or
\* pull_model calls follow.
C26_CancelledRunStaysCancelled ==
    (mm_run.cancel_called /\ mm_pc # "idle") => mm_is_cancelled

\* C27 (as claimed): every progress value emitted by a pull is -1 or an integer
\* in 0..100, for every sequence of updates in which total and completed are each
\* optional and non-negative.
C27_ProgressInRange ==
    mm_emitted.sig = "pull_progress" =>
        (mm_emitted.value = -1 \/ mm_emitted.value \in 0..100)

\* C28 (as claimed): every model name of the curated download catalog is
\* accepted by filter_valid_models, so that a catalog model, once installed, is
\* among the models the selector is filled with.
C28_CatalogPassesFilter ==
    filter_stage = 1 =>
        \A i \in 1..Len(models) :
            models[i] \in AVAILABLE_MODELS => InList(models[i], valid_models)

\* C29 (as claimed): the message list a chat worker sends upstream equals the
\* transcript as it was when send_message returned: it ends with the user message
\* just appended, and no clear_chat or append made after the send affects it.
C29_PayloadIsTranscriptAtSend ==
    \A w \in Workers :
        workers[w].built =>
            /\ workers[w].intact
            /\ workers[w].seen # <<>>
            /\ workers[w].seen[Len(workers[w].seen)].role = "user"

\* C30 (as claimed): applying Reset to Defaults in the settings dialog and
\* accepting yields the connection, generation and UI configuration of an
\* application started with an empty persisted store (the startup fallbacks).
C30_ResetEqualsStartupDefaults ==
    [][(\E clear \in BOOLEAN : show_settings_dialog(ResetToDefaults, clear)) =>
           /\ api_config' = LoadedApi(Fallback)
           /\ model_config' = LoadedModel(Fallback)
           /\ system_prompt' = Setting(Fallback, "model_system_prompt")
           /\ ui_config' = LoadedUi(Fallback)
      ]_vars

====
